---------------------------- MODULE Spec2Model ----------------------------
(***************************************************************************)
(* Model of logs/services.py: StepsGenerator, the Hours-of-Service        *)
(* schedule generator.                                                     *)
(*                                                                         *)
(* Arithmetic.  The code computes with real numbers (Python floats): the   *)
(* drive quantum is a distance divided by AVG_SPEED_MPH.  To keep that     *)
(* division exact in integers, every time quantity of the model is held    *)
(* as  hours * AVG_SPEED_MPH  (the miles driven in that time at the        *)
(* average speed).  H(x) converts a configured number of hours, Day is     *)
(* the literal 24 of the code in the same unit.  Distances are in miles:   *)
(* dist_to_pickup_miles / dist_to_dropoff_miles are the values of lines    *)
(* 147-148, after the conversion from meters.                              *)
(***************************************************************************)
EXTENDS Integers, Sequences, FiniteSets, TLC

VARIABLES
    cfg,                  \* django settings read by the code (immutable during a run)
    cycle_used_hrs,       \* argument of __init__
    arg_pickup_miles,     \* dist_to_pickup_meters * 0.000621371 (argument of generate_steps)
    arg_dropoff_miles,    \* dist_to_dropoff_meters * 0.000621371
    cycle_remaining,      \* self.cycle_remaining
    call,                 \* number of the generate_steps call running on this instance
    pc,                   \* position in generate_steps
    steps,
    current_hour,
    total_elapsed,
    current_drive_window,
    current_drive_accumulated,
    drive_accumulated_since_last_break,
    miles_since_fuel,
    dist_to_pickup_miles,
    remaining_dist,
    pickup_done,
    first_steps,          \* the list returned by the first call (kept by the caller)
    seg_call,             \* arguments of a direct call of a segment builder
    seg_ret               \* <<the segment that call returned>>, <<>> before it returns

vars == <<cfg, cycle_used_hrs, arg_pickup_miles, arg_dropoff_miles, cycle_remaining,
          call, pc, steps, current_hour, total_elapsed, current_drive_window,
          current_drive_accumulated, drive_accumulated_since_last_break,
          miles_since_fuel, dist_to_pickup_miles, remaining_dist, pickup_done,
          first_steps, seg_call, seg_ret>>

locals == <<steps, current_hour, total_elapsed, current_drive_window,
            current_drive_accumulated, drive_accumulated_since_last_break,
            miles_since_fuel, dist_to_pickup_miles, remaining_dist, pickup_done>>

inputs == <<cfg, cycle_used_hrs, arg_pickup_miles, arg_dropoff_miles>>

direct == <<seg_call, seg_ret>>

---------------------------------------------------------------------------
\* Bounds of the model
MaxPickupMiles == 4
MaxDropoffMiles == 12
MaxOverCycle == 1       \* cycle_used_hrs ranges over 0 .. MAX_CYCLE_HOURS + MaxOverCycle
MaxSteps == 60          \* cap on the length of the emitted list (never reached by the code)
MaxSegDuration == 25    \* direct calls of the builders: duration in 1 .. MaxSegDuration
MaxSegElapsed == 30     \* direct calls of the builders: elapsed_start in 0 .. MaxSegElapsed

\* The literal 24 of the code (hours per day)
HoursPerDay == 24

\* The settings the code reads (django.conf.settings), in hours / miles / mph.
\* All fields positive except START_DUTY_HOUR, which may be 0.
Configs ==
    { [ START_DUTY_HOUR |-> 6, PRE_TRIP_INSPECTION_TIME |-> 1, MAX_CYCLE_HOURS |-> 6,
        MAX_DRIVING_PER_DAY |-> 3, MAX_DRIVE_WINDOW |-> 5, BREAK_AFTER |-> 2,
        AVG_SPEED_MPH |-> 2, PICKUP_TIME |-> 1, DROPOFF_TIME |-> 1,
        MILES_BEFORE_FUEL |-> 4, FUELING_DURATION |-> 1, BREAK_DURATION |-> 1,
        SLEEPER_BREAK_HOURS |-> 10, REST_AFTER_CYCLE |-> 34 ],
      [ START_DUTY_HOUR |-> 0, PRE_TRIP_INSPECTION_TIME |-> 1, MAX_CYCLE_HOURS |-> 9,
        MAX_DRIVING_PER_DAY |-> 4, MAX_DRIVE_WINDOW |-> 6, BREAK_AFTER |-> 3,
        AVG_SPEED_MPH |-> 1, PICKUP_TIME |-> 2, DROPOFF_TIME |-> 1,
        MILES_BEFORE_FUEL |-> 5, FUELING_DURATION |-> 1, BREAK_DURATION |-> 1,
        SLEEPER_BREAK_HOURS |-> 8, REST_AFTER_CYCLE |-> 10 ],
      [ START_DUTY_HOUR |-> 21, PRE_TRIP_INSPECTION_TIME |-> 1, MAX_CYCLE_HOURS |-> 7,
        MAX_DRIVING_PER_DAY |-> 3, MAX_DRIVE_WINDOW |-> 6, BREAK_AFTER |-> 2,
        AVG_SPEED_MPH |-> 1, PICKUP_TIME |-> 2, DROPOFF_TIME |-> 2,
        MILES_BEFORE_FUEL |-> 3, FUELING_DURATION |-> 1, BREAK_DURATION |-> 1,
        SLEEPER_BREAK_HOURS |-> 9, REST_AFTER_CYCLE |-> 12 ] }

---------------------------------------------------------------------------
\* Units
H(x) == x * cfg.AVG_SPEED_MPH          \* x hours, in the model's time unit
Day == HoursPerDay * cfg.AVG_SPEED_MPH  \* 24 hours

Min2(a, b) == IF a <= b THEN a ELSE b

Last(s) == s[Len(s)]

\* no segment builder is being called directly
NoCall == [method |-> "none"]

---------------------------------------------------------------------------
\* Variant of InitCycleRemaining: the hours already used are ignored.
InitCycleRemaining_IgnoresUsed(c, used) ==
    c.MAX_CYCLE_HOURS * c.AVG_SPEED_MPH

\* StepsGenerator.__init__
InitCycleRemaining(c, used) ==
    c.MAX_CYCLE_HOURS * c.AVG_SPEED_MPH - used * c.AVG_SPEED_MPH

\* Variant of create_segment: the end hour is not wrapped at midnight.
create_segment_NoWrap(status, duration, label, start_hour, elapsed_start, miles_moved) ==
    [ status        |-> status,
      duration      |-> duration,
      label         |-> label,
      start_hour    |-> start_hour,
      end_hour      |-> start_hour + duration,
      elapsed_start |-> elapsed_start,
      elapsed_end   |-> elapsed_start + duration,
      day_number    |-> (elapsed_start \div Day) + 1,
      miles_moved   |-> miles_moved ]

\* Variant of create_segment: the day number is taken at the end of the segment.
create_segment_DayFromEnd(status, duration, label, start_hour, elapsed_start, miles_moved) ==
    [ status        |-> status,
      duration      |-> duration,
      label         |-> label,
      start_hour    |-> start_hour,
      end_hour      |-> (start_hour + duration) % Day,
      elapsed_start |-> elapsed_start,
      elapsed_end   |-> elapsed_start + duration,
      day_number    |-> ((elapsed_start + duration) \div Day) + 1,
      miles_moved   |-> miles_moved ]

\* Variant of create_segment: elapsed_end is computed from the hour of day.
create_segment_EndFromHour(status, duration, label, start_hour, elapsed_start, miles_moved) ==
    [ status        |-> status,
      duration      |-> duration,
      label         |-> label,
      start_hour    |-> start_hour,
      end_hour      |-> (start_hour + duration) % Day,
      elapsed_start |-> elapsed_start,
      elapsed_end   |-> start_hour + duration,
      day_number    |-> (elapsed_start \div Day) + 1,
      miles_moved   |-> miles_moved ]

\* StepsGenerator._create_segment
create_segment(status, duration, label, start_hour, elapsed_start, miles_moved) ==
    [ status        |-> status,
      duration      |-> duration,
      label         |-> label,
      start_hour    |-> start_hour,
      end_hour      |-> (start_hour + duration) % Day,
      elapsed_start |-> elapsed_start,
      elapsed_end   |-> elapsed_start + duration,
      day_number    |-> (elapsed_start \div Day) + 1,
      miles_moved   |-> miles_moved ]

\* Variant of manage_create_segment: a segment ending exactly at midnight is split.
manage_create_segment_SplitAtBoundary(status, duration, label, start_hour, elapsed_start, miles_moved) ==
    LET rest_of_days == elapsed_start % Day
    IN  IF rest_of_days + duration >= Day
        THEN LET first_part_duration == Day - rest_of_days
                 first_part_miles ==
                     IF miles_moved # 0
                     THEN (miles_moved * first_part_duration) \div duration
                     ELSE 0
                 segment1 == create_segment(status, first_part_duration, label,
                                            start_hour, elapsed_start, first_part_miles)
                 new_elapsed_start == elapsed_start + first_part_duration
                 second_part_duration == duration - first_part_duration
                 segment2 == create_segment(status, second_part_duration, label, 0,
                                            new_elapsed_start,
                                            miles_moved - first_part_miles)
             IN  [appended |-> <<segment1>>, returned |-> segment2]
        ELSE [appended |-> <<>>,
              returned |-> create_segment(status, duration, label, start_hour,
                                          elapsed_start, miles_moved)]

\* Variant of manage_create_segment: the second half keeps the hour of the first.
manage_create_segment_HourKept(status, duration, label, start_hour, elapsed_start, miles_moved) ==
    LET rest_of_days == elapsed_start % Day
    IN  IF rest_of_days + duration > Day
        THEN LET first_part_duration == Day - rest_of_days
                 first_part_miles ==
                     IF miles_moved # 0
                     THEN (miles_moved * first_part_duration) \div duration
                     ELSE 0
                 segment1 == create_segment(status, first_part_duration, label,
                                            start_hour, elapsed_start, first_part_miles)
                 new_elapsed_start == elapsed_start + first_part_duration
                 second_part_duration == duration - first_part_duration
                 segment2 == create_segment(status, second_part_duration, label,
                                            start_hour, new_elapsed_start,
                                            miles_moved - first_part_miles)
             IN  [appended |-> <<segment1>>, returned |-> segment2]
        ELSE [appended |-> <<>>,
              returned |-> create_segment(status, duration, label, start_hour,
                                          elapsed_start, miles_moved)]

\* StepsGenerator.manage_create_segment: appended is what the method appends to
\* the caller's list, returned is the segment it returns.
manage_create_segment(status, duration, label, start_hour, elapsed_start, miles_moved) ==
    LET rest_of_days == elapsed_start % Day
    IN  IF rest_of_days + duration > Day
        THEN LET first_part_duration == Day - rest_of_days
                 first_part_miles ==
                     IF miles_moved # 0
                     THEN (miles_moved * first_part_duration) \div duration
                     ELSE 0
                 segment1 == create_segment(status, first_part_duration, label,
                                            start_hour, elapsed_start, first_part_miles)
                 new_elapsed_start == elapsed_start + first_part_duration
                 second_part_duration == duration - first_part_duration
                 segment2 == create_segment(status, second_part_duration, label, 0,
                                            new_elapsed_start,
                                            miles_moved - first_part_miles)
             IN  [appended |-> <<segment1>>, returned |-> segment2]
        ELSE [appended |-> <<>>,
              returned |-> create_segment(status, duration, label, start_hour,
                                          elapsed_start, miles_moved)]

\* seg = self.manage_create_segment(..., steps); steps.append(seg)
Emit(list, status, duration, label, start_hour, elapsed_start, miles_moved) ==
    LET r == manage_create_segment(status, duration, label, start_hour,
                                   elapsed_start, miles_moved)
    IN  (list \o r.appended) \o <<r.returned>>

---------------------------------------------------------------------------
Init ==
    /\ cfg \in Configs
    /\ cycle_used_hrs \in 0 .. (cfg.MAX_CYCLE_HOURS + MaxOverCycle)
    /\ arg_pickup_miles \in 0 .. MaxPickupMiles
    /\ arg_dropoff_miles \in 0 .. MaxDropoffMiles
    /\ cycle_remaining = InitCycleRemaining(cfg, cycle_used_hrs)
    /\ call = 1
    /\ pc = "start"
    /\ steps = <<>>
    /\ current_hour = 0
    /\ total_elapsed = 0
    /\ current_drive_window = 0
    /\ current_drive_accumulated = 0
    /\ drive_accumulated_since_last_break = 0
    /\ miles_since_fuel = 0
    /\ dist_to_pickup_miles = 0
    /\ remaining_dist = 0
    /\ pickup_done = FALSE
    /\ first_steps = <<>>
    /\ seg_call = NoCall
    /\ seg_ret = <<>>

---------------------------------------------------------------------------
\* generate_steps, lines 146-175: conversion, leading filler, pre-trip inspection
Begin ==
    /\ pc = "start"
    /\ LET start == H(cfg.START_DUTY_HOUR)
           s0 == IF start > 0
                 THEN Emit(<<>>, "OFF_DUTY", start, "OFF_DUTY", 0, 0, 0)
                 ELSE <<>>
           hour0 == IF start > 0 THEN Last(s0).end_hour ELSE start
           elapsed0 == IF start > 0 THEN 0 + start ELSE 0
           s1 == Emit(s0, "ON_DUTY", H(cfg.PRE_TRIP_INSPECTION_TIME),
                      "Pre-trip Inspection", hour0, elapsed0, 0)
       IN  /\ steps' = s1
           /\ current_hour' = Last(s1).end_hour
           /\ total_elapsed' = elapsed0 + H(cfg.PRE_TRIP_INSPECTION_TIME)
           /\ current_drive_window' = 0 + H(cfg.PRE_TRIP_INSPECTION_TIME)
           /\ cycle_remaining' = cycle_remaining - H(cfg.PRE_TRIP_INSPECTION_TIME)
    /\ current_drive_accumulated' = 0
    /\ drive_accumulated_since_last_break' = 0
    /\ miles_since_fuel' = 0
    /\ dist_to_pickup_miles' = arg_pickup_miles
    /\ remaining_dist' = arg_pickup_miles + arg_dropoff_miles
    /\ pickup_done' = FALSE
    /\ pc' = "while"
    /\ UNCHANGED <<direct, inputs, call, first_steps>>

\* Variant of LoopTest: the loop is entered with no distance left.
LoopTest_Inclusive == remaining_dist >= 0

\* line 177: while remaining_dist > 0
LoopTest == remaining_dist > 0

\* Variant of CycleLimitReached: an exactly exhausted cycle is not a reached limit.
CycleLimitReached_Strict == cycle_remaining < 0

\* lines 177-186: loop test and cycle-limit check
CycleLimitReached == cycle_remaining <= 0

CycleLimitCheck ==
    /\ pc = "while"
    /\ LoopTest
    /\ Len(steps) < MaxSteps
    /\ IF CycleLimitReached
       THEN LET s1 == Emit(steps, "OFF_DUTY", H(cfg.REST_AFTER_CYCLE), "Cycle Restart",
                           current_hour, total_elapsed, 0)
            IN  /\ steps' = s1
                /\ current_hour' = Last(s1).end_hour
                /\ total_elapsed' = total_elapsed + H(cfg.REST_AFTER_CYCLE)
                /\ cycle_remaining' = H(cfg.MAX_CYCLE_HOURS)
                /\ current_drive_window' = 0
                /\ current_drive_accumulated' = 0
                /\ drive_accumulated_since_last_break' = 0
       ELSE UNCHANGED <<steps, current_hour, total_elapsed, cycle_remaining,
                        current_drive_window, current_drive_accumulated,
                        drive_accumulated_since_last_break>>
    /\ pc' = "drive"
    /\ UNCHANGED <<direct, inputs, call, first_steps, miles_since_fuel, dist_to_pickup_miles,
                   remaining_dist, pickup_done>>

\* Variant of dist_to_next_stop: the pickup is not a stop.
dist_to_next_stop_DropoffOnly == remaining_dist

\* lines 189-204: the drive quantum
dist_to_next_stop == IF ~pickup_done THEN dist_to_pickup_miles ELSE remaining_dist

\* Variant of left_time_driving_per_day: measured against the window cap.
left_time_driving_per_day_Window == H(cfg.MAX_DRIVE_WINDOW) - current_drive_accumulated

left_time_driving_per_day == H(cfg.MAX_DRIVING_PER_DAY) - current_drive_accumulated

\* Variant of left_time_drive_window: only the driving hours count against the window.
left_time_drive_window_DrivingOnly == H(cfg.MAX_DRIVE_WINDOW) - current_drive_accumulated

left_time_drive_window == H(cfg.MAX_DRIVE_WINDOW) - current_drive_window

left_time_before_break ==
    H(cfg.BREAK_AFTER) -
        (IF drive_accumulated_since_last_break # 0
         THEN drive_accumulated_since_last_break % H(cfg.BREAK_AFTER)
         ELSE 0)

\* dist_to_next_stop / AVG_SPEED_MPH hours, i.e. dist_to_next_stop time units
left_time_to_next_stop == dist_to_next_stop

\* Variant of time_to_drive: the distance to the next stop is left out.
time_to_drive_NoStop ==
    Min2(left_time_driving_per_day,
         Min2(left_time_drive_window,
              Min2(left_time_before_break, cycle_remaining)))

time_to_drive ==
    Min2(left_time_driving_per_day,
         Min2(left_time_drive_window,
              Min2(left_time_before_break,
                   Min2(left_time_to_next_stop, cycle_remaining))))

\* line 208: time_to_drive hours * AVG_SPEED_MPH, i.e. t time units are t miles
MilesMoved(t) == t

\* Variant of CycleAfterDriving: the drive quantum is not charged to the cycle.
CycleAfterDriving_NotCharged(t) == cycle_remaining

\* line 224: self.cycle_remaining -= time_to_drive
CycleAfterDriving(t) == cycle_remaining - t

\* Variant of Drive: a drive quantum of zero hours is emitted too.
Drive_ZeroQuantum ==
    /\ pc = "drive"
    /\ IF time_to_drive >= 0
       THEN LET miles_moved == MilesMoved(time_to_drive)
                s1 == Emit(steps, "DRIVING", time_to_drive, "Driving", current_hour,
                           total_elapsed, miles_moved)
            IN  /\ steps' = s1
                /\ dist_to_pickup_miles' =
                       IF ~pickup_done THEN dist_to_pickup_miles - miles_moved
                                       ELSE dist_to_pickup_miles
                /\ remaining_dist' = remaining_dist - miles_moved
                /\ miles_since_fuel' = miles_since_fuel + miles_moved
                /\ current_hour' = Last(s1).end_hour
                /\ total_elapsed' = total_elapsed + time_to_drive
                /\ current_drive_window' = current_drive_window + time_to_drive
                /\ current_drive_accumulated' = current_drive_accumulated + time_to_drive
                /\ drive_accumulated_since_last_break' =
                       drive_accumulated_since_last_break + time_to_drive
                /\ cycle_remaining' = CycleAfterDriving(time_to_drive)
       ELSE UNCHANGED <<steps, dist_to_pickup_miles, remaining_dist, miles_since_fuel,
                        current_hour, total_elapsed, current_drive_window,
                        current_drive_accumulated, drive_accumulated_since_last_break,
                        cycle_remaining>>
    /\ pc' = "pickup"
    /\ UNCHANGED <<direct, inputs, call, first_steps, pickup_done>>

\* lines 207-224
Drive ==
    /\ pc = "drive"
    /\ IF time_to_drive > 0
       THEN LET miles_moved == MilesMoved(time_to_drive)
                s1 == Emit(steps, "DRIVING", time_to_drive, "Driving", current_hour,
                           total_elapsed, miles_moved)
            IN  /\ steps' = s1
                /\ dist_to_pickup_miles' =
                       IF ~pickup_done THEN dist_to_pickup_miles - miles_moved
                                       ELSE dist_to_pickup_miles
                /\ remaining_dist' = remaining_dist - miles_moved
                /\ miles_since_fuel' = miles_since_fuel + miles_moved
                /\ current_hour' = Last(s1).end_hour
                /\ total_elapsed' = total_elapsed + time_to_drive
                /\ current_drive_window' = current_drive_window + time_to_drive
                /\ current_drive_accumulated' = current_drive_accumulated + time_to_drive
                /\ drive_accumulated_since_last_break' =
                       drive_accumulated_since_last_break + time_to_drive
                /\ cycle_remaining' = CycleAfterDriving(time_to_drive)
       ELSE UNCHANGED <<steps, dist_to_pickup_miles, remaining_dist, miles_since_fuel,
                        current_hour, total_elapsed, current_drive_window,
                        current_drive_accumulated, drive_accumulated_since_last_break,
                        cycle_remaining>>
    /\ pc' = "pickup"
    /\ UNCHANGED <<direct, inputs, call, first_steps, pickup_done>>

\* lines 227-234
PickupArrival ==
    /\ pc = "pickup"
    /\ IF ~pickup_done /\ dist_to_pickup_miles <= 0
       THEN LET s1 == Emit(steps, "ON_DUTY", H(cfg.PICKUP_TIME), "Pickup Loading",
                           current_hour, total_elapsed, 0)
            IN  /\ steps' = s1
                /\ current_hour' = Last(s1).end_hour
                /\ total_elapsed' = total_elapsed + H(cfg.PICKUP_TIME)
                /\ current_drive_window' = current_drive_window + H(cfg.PICKUP_TIME)
                /\ cycle_remaining' = cycle_remaining - H(cfg.PICKUP_TIME)
                /\ pickup_done' = TRUE
       ELSE UNCHANGED <<steps, current_hour, total_elapsed, current_drive_window,
                        cycle_remaining, pickup_done>>
    /\ pc' = "stops"
    /\ UNCHANGED <<direct, inputs, call, first_steps, current_drive_accumulated,
                   drive_accumulated_since_last_break, miles_since_fuel,
                   dist_to_pickup_miles, remaining_dist>>

\* lines 237-261: the conditions of the if / elif / elif chain
\* Variant of FuelDue: strict comparison.
FuelDue_Strict == miles_since_fuel > cfg.MILES_BEFORE_FUEL

FuelDue == miles_since_fuel >= cfg.MILES_BEFORE_FUEL

BreakDue == drive_accumulated_since_last_break >= H(cfg.BREAK_AFTER)

\* Variant of SleeperDue: strict comparisons.
SleeperDue_Strict ==
    \/ current_drive_accumulated > H(cfg.MAX_DRIVING_PER_DAY)
    \/ current_drive_window > H(cfg.MAX_DRIVE_WINDOW)

SleeperDue ==
    \/ current_drive_accumulated >= H(cfg.MAX_DRIVING_PER_DAY)
    \/ current_drive_window >= H(cfg.MAX_DRIVE_WINDOW)

\* Variant of StopKind: the break is tested before the fueling stop.
StopKind_BreakFirst ==
    IF BreakDue THEN "break"
    ELSE IF FuelDue THEN "fuel"
    ELSE IF SleeperDue THEN "sleeper"
    ELSE "none"

\* which branch of the chain runs
StopKind ==
    IF FuelDue THEN "fuel"
    ELSE IF BreakDue THEN "break"
    ELSE IF SleeperDue THEN "sleeper"
    ELSE "none"

\* Variant of MandatoryStops: the break is charged to the cycle.
MandatoryStops_BreakCharged ==
    /\ pc = "stops"
    /\ CASE StopKind = "fuel" ->
              LET s1 == Emit(steps, "ON_DUTY", H(cfg.FUELING_DURATION), "Fueling",
                             current_hour, total_elapsed, 0)
              IN  /\ steps' = s1
                  /\ current_hour' = Last(s1).end_hour
                  /\ total_elapsed' = total_elapsed + H(cfg.FUELING_DURATION)
                  /\ current_drive_window' = current_drive_window + H(cfg.FUELING_DURATION)
                  /\ cycle_remaining' = cycle_remaining - H(cfg.FUELING_DURATION)
                  /\ miles_since_fuel' = 0
                  /\ UNCHANGED <<current_drive_accumulated,
                                 drive_accumulated_since_last_break>>
         [] StopKind = "break" ->
              LET s1 == Emit(steps, "OFF_DUTY", H(cfg.BREAK_DURATION), "Break",
                             current_hour, total_elapsed, 0)
              IN  /\ steps' = s1
                  /\ current_hour' = Last(s1).end_hour
                  /\ total_elapsed' = total_elapsed + H(cfg.BREAK_DURATION)
                  /\ current_drive_window' = current_drive_window + H(cfg.BREAK_DURATION)
                  /\ drive_accumulated_since_last_break' = 0
                  /\ cycle_remaining' = cycle_remaining - H(cfg.BREAK_DURATION)
                  /\ UNCHANGED <<miles_since_fuel, current_drive_accumulated>>
         [] StopKind = "sleeper" ->
              LET s1 == Emit(steps, "SLEEPER", H(cfg.SLEEPER_BREAK_HOURS), "10-hour Sleep",
                             current_hour, total_elapsed, 0)
              IN  /\ steps' = s1
                  /\ current_hour' = Last(s1).end_hour
                  /\ total_elapsed' = total_elapsed + H(cfg.SLEEPER_BREAK_HOURS)
                  /\ current_drive_window' = 0
                  /\ current_drive_accumulated' = 0
                  /\ drive_accumulated_since_last_break' = 0
                  /\ UNCHANGED <<cycle_remaining, miles_since_fuel>>
         [] OTHER ->
              UNCHANGED <<steps, current_hour, total_elapsed, current_drive_window,
                          current_drive_accumulated, drive_accumulated_since_last_break,
                          cycle_remaining, miles_since_fuel>>
    /\ pc' = "while"
    /\ UNCHANGED <<direct, inputs, call, first_steps, dist_to_pickup_miles, remaining_dist,
                   pickup_done>>

\* Variant of MandatoryStops: the fueling stop is not charged to the cycle.
MandatoryStops_FuelingNotCharged ==
    /\ pc = "stops"
    /\ CASE StopKind = "fuel" ->
              LET s1 == Emit(steps, "ON_DUTY", H(cfg.FUELING_DURATION), "Fueling",
                             current_hour, total_elapsed, 0)
              IN  /\ steps' = s1
                  /\ current_hour' = Last(s1).end_hour
                  /\ total_elapsed' = total_elapsed + H(cfg.FUELING_DURATION)
                  /\ current_drive_window' = current_drive_window + H(cfg.FUELING_DURATION)
                  /\ miles_since_fuel' = 0
                  /\ UNCHANGED <<cycle_remaining, current_drive_accumulated,
                                 drive_accumulated_since_last_break>>
         [] StopKind = "break" ->
              LET s1 == Emit(steps, "OFF_DUTY", H(cfg.BREAK_DURATION), "Break",
                             current_hour, total_elapsed, 0)
              IN  /\ steps' = s1
                  /\ current_hour' = Last(s1).end_hour
                  /\ total_elapsed' = total_elapsed + H(cfg.BREAK_DURATION)
                  /\ current_drive_window' = current_drive_window + H(cfg.BREAK_DURATION)
                  /\ drive_accumulated_since_last_break' = 0
                  /\ UNCHANGED <<cycle_remaining, miles_since_fuel,
                                 current_drive_accumulated>>
         [] StopKind = "sleeper" ->
              LET s1 == Emit(steps, "SLEEPER", H(cfg.SLEEPER_BREAK_HOURS), "10-hour Sleep",
                             current_hour, total_elapsed, 0)
              IN  /\ steps' = s1
                  /\ current_hour' = Last(s1).end_hour
                  /\ total_elapsed' = total_elapsed + H(cfg.SLEEPER_BREAK_HOURS)
                  /\ current_drive_window' = 0
                  /\ current_drive_accumulated' = 0
                  /\ drive_accumulated_since_last_break' = 0
                  /\ UNCHANGED <<cycle_remaining, miles_since_fuel>>
         [] OTHER ->
              UNCHANGED <<steps, current_hour, total_elapsed, current_drive_window,
                          current_drive_accumulated, drive_accumulated_since_last_break,
                          cycle_remaining, miles_since_fuel>>
    /\ pc' = "while"
    /\ UNCHANGED <<direct, inputs, call, first_steps, dist_to_pickup_miles, remaining_dist,
                   pickup_done>>

\* lines 237-261: the mandatory stop of the iteration, if any
MandatoryStops ==
    /\ pc = "stops"
    /\ CASE StopKind = "fuel" ->
              LET s1 == Emit(steps, "ON_DUTY", H(cfg.FUELING_DURATION), "Fueling",
                             current_hour, total_elapsed, 0)
              IN  /\ steps' = s1
                  /\ current_hour' = Last(s1).end_hour
                  /\ total_elapsed' = total_elapsed + H(cfg.FUELING_DURATION)
                  /\ current_drive_window' = current_drive_window + H(cfg.FUELING_DURATION)
                  /\ cycle_remaining' = cycle_remaining - H(cfg.FUELING_DURATION)
                  /\ miles_since_fuel' = 0
                  /\ UNCHANGED <<current_drive_accumulated,
                                 drive_accumulated_since_last_break>>
         [] StopKind = "break" ->
              LET s1 == Emit(steps, "OFF_DUTY", H(cfg.BREAK_DURATION), "Break",
                             current_hour, total_elapsed, 0)
              IN  /\ steps' = s1
                  /\ current_hour' = Last(s1).end_hour
                  /\ total_elapsed' = total_elapsed + H(cfg.BREAK_DURATION)
                  /\ current_drive_window' = current_drive_window + H(cfg.BREAK_DURATION)
                  /\ drive_accumulated_since_last_break' = 0
                  /\ UNCHANGED <<cycle_remaining, miles_since_fuel,
                                 current_drive_accumulated>>
         [] StopKind = "sleeper" ->
              LET s1 == Emit(steps, "SLEEPER", H(cfg.SLEEPER_BREAK_HOURS), "10-hour Sleep",
                             current_hour, total_elapsed, 0)
              IN  /\ steps' = s1
                  /\ current_hour' = Last(s1).end_hour
                  /\ total_elapsed' = total_elapsed + H(cfg.SLEEPER_BREAK_HOURS)
                  /\ current_drive_window' = 0
                  /\ current_drive_accumulated' = 0
                  /\ drive_accumulated_since_last_break' = 0
                  /\ UNCHANGED <<cycle_remaining, miles_since_fuel>>
         [] OTHER ->
              UNCHANGED <<steps, current_hour, total_elapsed, current_drive_window,
                          current_drive_accumulated, drive_accumulated_since_last_break,
                          cycle_remaining, miles_since_fuel>>
    /\ pc' = "while"
    /\ UNCHANGED <<direct, inputs, call, first_steps, dist_to_pickup_miles, remaining_dist,
                   pickup_done>>

\* Variant of left_time: a whole day is added whatever the hour.
left_time_FullDay(hour) == Day

\* line 269: left_time = 24 - (current_hour % 24)
left_time(hour) == Day - (hour % Day)

\* lines 262-276: drop-off, final filler, return
Finish ==
    /\ pc = "while"
    /\ ~LoopTest
    /\ LET s1 == Emit(steps, "ON_DUTY", H(cfg.DROPOFF_TIME), "Drop-off Unloading",
                      current_hour, total_elapsed, 0)
           hour1 == Last(s1).end_hour
           elapsed1 == total_elapsed + H(cfg.DROPOFF_TIME)
           filler == create_segment("OFF_DUTY", left_time(hour1), "OFF_DUTY", hour1,
                                    elapsed1, 0)
       IN  IF left_time(hour1) > 0
           THEN /\ steps' = Append(s1, filler)
                /\ current_hour' = filler.end_hour
                /\ total_elapsed' = elapsed1 + left_time(hour1)
           ELSE /\ steps' = s1
                /\ current_hour' = hour1
                /\ total_elapsed' = elapsed1
    /\ pc' = "done"
    /\ UNCHANGED <<direct, inputs, call, first_steps, cycle_remaining, current_drive_window,
                   current_drive_accumulated, drive_accumulated_since_last_break,
                   miles_since_fuel, dist_to_pickup_miles, remaining_dist, pickup_done>>

\* A caller invoking generate_steps again on the same instance with the same
\* arguments: the locals are re-created by Begin, self.cycle_remaining is not.
CallAgain ==
    /\ pc = "done"
    /\ call = 1
    /\ first_steps' = steps
    /\ call' = 2
    /\ pc' = "start"
    /\ UNCHANGED <<direct, inputs, cycle_remaining, locals>>

Next ==
    \/ Begin
    \/ CycleLimitCheck
    \/ Drive
    \/ PickupArrival
    \/ MandatoryStops
    \/ Finish

Spec == Init /\ [][Next]_vars

\* generate_steps is straight-line code run to completion
FairSpec == Spec /\ WF_vars(Next)

NextReuse == Next \/ CallAgain

SpecReuse == Init /\ [][NextReuse]_vars

---------------------------------------------------------------------------
\* Settings with a cap that is not positive.  Nothing in the code reads the
\* settings before line 159 or rejects any value of them.
InvalidConfigs ==
    { [ START_DUTY_HOUR |-> 6, PRE_TRIP_INSPECTION_TIME |-> 1, MAX_CYCLE_HOURS |-> cy,
        MAX_DRIVING_PER_DAY |-> dr, MAX_DRIVE_WINDOW |-> wi, BREAK_AFTER |-> 2,
        AVG_SPEED_MPH |-> 2, PICKUP_TIME |-> 1, DROPOFF_TIME |-> 1,
        MILES_BEFORE_FUEL |-> 4, FUELING_DURATION |-> 1, BREAK_DURATION |-> 1,
        SLEEPER_BREAK_HOURS |-> 10, REST_AFTER_CYCLE |-> 34 ] :
          <<cy, dr, wi>> \in { <<0, 3, 5>>, <<6, 0, 5>>, <<6, 3, 0>>, <<6, -1, 5>> } }

InitInvalid ==
    /\ cfg \in InvalidConfigs
    /\ cycle_used_hrs \in 0 .. MaxOverCycle
    /\ arg_pickup_miles \in 0 .. MaxPickupMiles
    /\ arg_dropoff_miles \in 0 .. MaxDropoffMiles
    /\ cycle_remaining = InitCycleRemaining(cfg, cycle_used_hrs)
    /\ call = 1
    /\ pc = "start"
    /\ steps = <<>>
    /\ current_hour = 0
    /\ total_elapsed = 0
    /\ current_drive_window = 0
    /\ current_drive_accumulated = 0
    /\ drive_accumulated_since_last_break = 0
    /\ miles_since_fuel = 0
    /\ dist_to_pickup_miles = 0
    /\ remaining_dist = 0
    /\ pickup_done = FALSE
    /\ first_steps = <<>>
    /\ seg_call = NoCall
    /\ seg_ret = <<>>

SpecInvalid == InitInvalid /\ [][Next]_vars

---------------------------------------------------------------------------
\* Direct calls of the two segment builders, as tests.py makes them.
\* Durations and elapsed times are in the model's time unit; miles_moved is a
\* multiple of the duration, so that the proportion of line 110 is an integer
\* (75 miles per unit is the 300 miles in 4 hours of tests.py).
SegRates == {0, 75}

\* the list the caller passes to manage_create_segment
CallerLists ==
    { <<>>, << create_segment("ON_DUTY", 1, "Pre-trip Inspection", 0, 0, 0) >> }

SegCalls ==
    { [method |-> m, status |-> "DRIVING", duration |-> d, label |-> "Driving",
       start_hour |-> h, elapsed_start |-> e, miles_moved |-> r * d, steps |-> l] :
         m \in {"_create_segment", "manage_create_segment"},
         d \in 1 .. MaxSegDuration,
         e \in 0 .. MaxSegElapsed,
         h \in 0 .. 1,
         r \in SegRates,
         l \in CallerLists }

InitDirect ==
    /\ cfg \in Configs
    /\ \E c \in SegCalls :
         /\ c.method = "_create_segment" => c.steps = <<>>
         /\ seg_call = [c EXCEPT !.start_hour = (c.elapsed_start + 7 * c.start_hour) % Day]
         /\ steps = c.steps
    /\ seg_ret = <<>>
    /\ pc = "call"
    /\ cycle_used_hrs = 0
    /\ arg_pickup_miles = 0
    /\ arg_dropoff_miles = 0
    /\ cycle_remaining = InitCycleRemaining(cfg, cycle_used_hrs)
    /\ call = 0
    /\ current_hour = 0
    /\ total_elapsed = 0
    /\ current_drive_window = 0
    /\ current_drive_accumulated = 0
    /\ drive_accumulated_since_last_break = 0
    /\ miles_since_fuel = 0
    /\ dist_to_pickup_miles = 0
    /\ remaining_dist = 0
    /\ pickup_done = FALSE
    /\ first_steps = <<>>

\* self._create_segment(status, duration, label, start_hour, elapsed_start, miles_moved)
CallCreateSegment ==
    /\ pc = "call"
    /\ seg_call.method = "_create_segment"
    /\ seg_ret' = << create_segment(seg_call.status, seg_call.duration, seg_call.label,
                                    seg_call.start_hour, seg_call.elapsed_start,
                                    seg_call.miles_moved) >>
    /\ pc' = "returned"
    /\ UNCHANGED <<inputs, seg_call, call, first_steps, cycle_remaining, locals>>

\* self.manage_create_segment(status, duration, label, start_hour, elapsed_start,
\*                            steps, miles_moved)
CallManageCreateSegment ==
    /\ pc = "call"
    /\ seg_call.method = "manage_create_segment"
    /\ LET r == manage_create_segment(seg_call.status, seg_call.duration, seg_call.label,
                                      seg_call.start_hour, seg_call.elapsed_start,
                                      seg_call.miles_moved)
       IN  /\ steps' = steps \o r.appended
           /\ seg_ret' = << r.returned >>
    /\ pc' = "returned"
    /\ UNCHANGED <<inputs, seg_call, call, first_steps, cycle_remaining, current_hour,
                   total_elapsed, current_drive_window, current_drive_accumulated,
                   drive_accumulated_since_last_break, miles_since_fuel,
                   dist_to_pickup_miles, remaining_dist, pickup_done>>

NextDirect == CallCreateSegment \/ CallManageCreateSegment

SpecDirect == InitDirect /\ [][NextDirect]_vars

---------------------------------------------------------------------------
\* Reading the emitted list

IsDriving(seg) == seg.status = "DRIVING"

IsSleeper(seg) == seg.status = "SLEEPER"

IsRestart(seg) == seg.status = "OFF_DUTY" /\ seg.label = "Cycle Restart"

IsReset(seg, kinds) ==
    \/ "sleeper" \in kinds /\ IsSleeper(seg)
    \/ "restart" \in kinds /\ IsRestart(seg)

\* hours of DRIVING in s[1..n] after the last segment of s[1..n] that is a reset
RECURSIVE RunDriving(_, _, _)
RunDriving(s, n, kinds) ==
    IF n = 0 THEN 0
    ELSE IF IsReset(s[n], kinds) THEN 0
    ELSE RunDriving(s, n - 1, kinds) + (IF IsDriving(s[n]) THEN s[n].duration ELSE 0)

\* miles_moved summed over the DRIVING segments of s[1..n]
RECURSIVE DrivingMiles(_, _)
DrivingMiles(s, n) ==
    IF n = 0 THEN 0
    ELSE DrivingMiles(s, n - 1) + (IF IsDriving(s[n]) THEN s[n].miles_moved ELSE 0)

\* s[i], s[i+1] are the two halves of one activity split at midnight
IsSplitAt(s, i) ==
    /\ i >= 1 /\ i < Len(s)
    /\ s[i].status = s[i + 1].status
    /\ s[i].label = s[i + 1].label
    /\ s[i].elapsed_end % Day = 0
    /\ s[i + 1].start_hour = 0
    /\ s[i].elapsed_end = s[i + 1].elapsed_start

\* the segments appended by the step being taken
NewSegments == SubSeq(steps', Len(steps) + 1, Len(steps'))

\* <<status, label>> of the activities of s[1..n], the two halves of an activity
\* split at midnight counted once
RECURSIVE Activities(_, _)
Activities(s, n) ==
    IF n = 0 THEN <<>>
    ELSE IF IsSplitAt(s, n - 1) THEN Activities(s, n - 1)
    ELSE Append(Activities(s, n - 1), <<s[n].status, s[n].label>>)

\* miles_moved summed over all the segments of s[1..n]
RECURSIVE TotalMiles(_, _)
TotalMiles(s, n) ==
    IF n = 0 THEN 0 ELSE TotalMiles(s, n - 1) + s[n].miles_moved

\* duration summed over all the segments of s
RECURSIVE TotalDuration(_)
TotalDuration(s) ==
    IF s = <<>> THEN 0 ELSE s[1].duration + TotalDuration(Tail(s))

---------------------------------------------------------------------------
\* C1.  Contiguity: the first segment starts at elapsed 0 and every segment
\* starts where the one before it ends, midnight halves and the final filler
\* included.
C1_Contiguity ==
    /\ Len(steps) > 0 => steps[1].elapsed_start = 0
    /\ \A i \in 1 .. Len(steps) - 1 : steps[i].elapsed_end = steps[i + 1].elapsed_start

\* a returned list holding a DRIVING segment split at midnight and the final filler
C1_Witness ==
    /\ pc = "done"
    /\ \E i \in 1 .. Len(steps) - 1 : IsSplitAt(steps, i) /\ IsDriving(steps[i])
    /\ Last(steps).label = "OFF_DUTY"

\* C2.  No segment crosses a midnight boundary:
\* elapsed_end - elapsed_start <= 24 - (elapsed_start mod 24) for every segment.
C2_NoMidnightCrossing ==
    \A i \in 1 .. Len(steps) :
        steps[i].elapsed_end - steps[i].elapsed_start
            <= Day - (steps[i].elapsed_start % Day)

\* C3.  Mileage conservation: the DRIVING miles never exceed the trip distance
\* and equal it in the returned list.
C3_MileageConservation ==
    /\ DrivingMiles(steps, Len(steps)) <= arg_pickup_miles + arg_dropoff_miles
    /\ pc = "done" =>
           DrivingMiles(steps, Len(steps)) = arg_pickup_miles + arg_dropoff_miles

\* a returned trip with both legs, a fueling stop, a break, a sleeper reset, a
\* cycle restart and a split DRIVING segment
C3_Witness ==
    /\ pc = "done"
    /\ arg_pickup_miles > 0 /\ arg_dropoff_miles > 0
    /\ \E i \in 1 .. Len(steps) : steps[i].label = "Fueling"
    /\ \E i \in 1 .. Len(steps) : steps[i].label = "Break"
    /\ \E i \in 1 .. Len(steps) : IsSleeper(steps[i])
    /\ \E i \in 1 .. Len(steps) : IsRestart(steps[i])
    /\ \E i \in 1 .. Len(steps) - 1 : IsSplitAt(steps, i) /\ IsDriving(steps[i])

\* C4.  Termination: an iteration that cannot drive has a pickup or a mandatory
\* stop to perform, and from every state of the loop with distance left the
\* call reaches its end with no distance left.
C4_NoIdleIteration ==
    (pc = "drive" /\ time_to_drive <= 0) =>
        \/ ~pickup_done /\ dist_to_pickup_miles <= 0
        \/ FuelDue
        \/ BreakDue
        \/ SleeperDue

C4_Termination ==
    /\ [] C4_NoIdleIteration
    /\ (remaining_dist > 0) ~> (pc = "done" /\ remaining_dist <= 0)

\* an iteration of the loop in which no drive quantum is available
C4_Witness == pc = "drive" /\ remaining_dist > 0 /\ time_to_drive <= 0

\* C5 as stated.  Between two consecutive SLEEPER events the DRIVING time never
\* exceeds max_driving_per_day.
C5_DailyCapBetweenSleepers ==
    \A k \in 2 .. Len(steps) :
        (IsSleeper(steps[k]) /\ \E i \in 1 .. k - 1 : IsSleeper(steps[i]))
            => RunDriving(steps, k - 1, {"sleeper"}) <= H(cfg.MAX_DRIVING_PER_DAY)

\* C5 amended.  Since the last daily reset, SLEEPER or cycle restart (or since
\* the start of the trip), the DRIVING time never exceeds max_driving_per_day.
C5_DailyCapBetweenResets ==
    \A n \in 1 .. Len(steps) :
        RunDriving(steps, n, {"sleeper", "restart"}) <= H(cfg.MAX_DRIVING_PER_DAY)

\* the daily cap is reached in a trip that has both kinds of reset
C5_Witness ==
    /\ RunDriving(steps, Len(steps), {"sleeper", "restart"}) = H(cfg.MAX_DRIVING_PER_DAY)
    /\ \E i \in 1 .. Len(steps) : IsSleeper(steps[i])
    /\ \E i \in 1 .. Len(steps) : IsRestart(steps[i])

\* C6.  The DRIVING time since the most recent cycle restart (or since the start
\* of the trip) never exceeds max_cycle_hours.
C6_CycleNeverOverDriven ==
    \A n \in 1 .. Len(steps) :
        RunDriving(steps, n, {"restart"}) <= H(cfg.MAX_CYCLE_HOURS)

\* the cycle runs out after driving that followed an earlier restart
C6_Witness ==
    /\ pc = "while"
    /\ cycle_remaining <= 0
    /\ \E i \in 1 .. Len(steps) : IsRestart(steps[i])
    /\ RunDriving(steps, Len(steps), {"restart"}) > H(cfg.MAX_DRIVING_PER_DAY)

\* C7.  The hours driven since the last break never exceed break_after_hours.
C7_BreakBudgetRespected ==
    drive_accumulated_since_last_break <= H(cfg.BREAK_AFTER)

\* C8.  A second call on the same instance with the same arguments returns the
\* same list as the first.
C8_SecondCallSameResult ==
    (call = 2 /\ pc = "done") => steps = first_steps

\* C9.  Constructed with cycle_used_hrs >= MAX_CYCLE_HOURS: every DRIVING segment
\* is preceded by a cycle-restart segment, itself preceded by the pre-trip
\* inspection.
C9_RestartBeforeDriving ==
    cycle_used_hrs >= cfg.MAX_CYCLE_HOURS =>
        \A i \in 1 .. Len(steps) :
            IsDriving(steps[i]) =>
                \E j \in 1 .. i - 1 :
                    /\ IsRestart(steps[j])
                    /\ \E k \in 1 .. j - 1 : steps[k].label = "Pre-trip Inspection"

\* a returned trip that drove, from an exhausted cycle
C9_Witness ==
    /\ pc = "done"
    /\ cycle_used_hrs >= cfg.MAX_CYCLE_HOURS
    /\ \E i \in 1 .. Len(steps) : IsDriving(steps[i])

\* C10.  Stop resolution emits at most one activity (one segment, or the two
\* halves of one split at midnight), and when both the fuel and the break
\* thresholds are reached that activity is the ON_DUTY fueling stop.
C10_OneStop ==
    pc = "stops" =>
        /\ Len(NewSegments) <= 2
        /\ Len(NewSegments) = 2 => IsSplitAt(NewSegments, 1)
        /\ \A i \in 1 .. Len(NewSegments) :
               NewSegments[i].label \in {"Fueling", "Break", "10-hour Sleep"}

C10_FuelFirst ==
    (pc = "stops" /\ FuelDue /\ BreakDue) =>
        /\ Len(NewSegments) >= 1
        /\ \A i \in 1 .. Len(NewSegments) :
               /\ NewSegments[i].status = "ON_DUTY"
               /\ NewSegments[i].label = "Fueling"

C10_FuelPriority == [][C10_OneStop /\ C10_FuelFirst]_vars

\* stop resolution is reached with both thresholds met
C10_Witness == pc = "stops" /\ FuelDue /\ BreakDue

---------------------------------------------------------------------------
\* C11.  Zero-distance trip with an unused cycle: the loop body never runs and
\* the returned list is the leading OFF_DUTY filler (only when START_DUTY_HOUR
\* is positive), the Pre-trip Inspection, the Drop-off Unloading and the final
\* OFF_DUTY filler, in that order and nothing else; no mile is moved.
C11_ZeroDistanceTrip ==
    (arg_pickup_miles = 0 /\ arg_dropoff_miles = 0 /\ cycle_used_hrs = 0 /\ call = 1)
    => /\ pc \in {"start", "while", "done"}
       /\ pc = "done" =>
            /\ Activities(steps, Len(steps)) =
                   (IF cfg.START_DUTY_HOUR > 0 THEN << <<"OFF_DUTY", "OFF_DUTY">> >> ELSE <<>>)
                   \o << <<"ON_DUTY", "Pre-trip Inspection">>,
                         <<"ON_DUTY", "Drop-off Unloading">>,
                         <<"OFF_DUTY", "OFF_DUTY">> >>
            /\ TotalMiles(steps, Len(steps)) = 0
            /\ \A i \in 1 .. Len(steps) : ~IsDriving(steps[i])

\* a returned zero-distance trip that starts at hour 0: three segments, no leading filler
C11_Witness ==
    /\ pc = "done" /\ call = 1
    /\ arg_pickup_miles = 0 /\ arg_dropoff_miles = 0 /\ cycle_used_hrs = 0
    /\ cfg.START_DUTY_HOUR = 0
    /\ Len(steps) = 3

---------------------------------------------------------------------------
\* C12.  manage_create_segment called with (elapsed_start mod 24) + duration > 24
\* and duration <= 24: exactly one sub-segment is appended to the caller's list
\* and one is returned; the appended one starts at the given start_hour and
\* elapsed_start and ends at the next multiple of 24; the returned one starts at
\* hour 0 and at that multiple; the two durations add up to duration, the two
\* mileages to miles_moved, and the first mileage is
\* miles_moved * first duration / duration.
C12_SplitAtMidnight ==
    (/\ pc = "returned"
     /\ seg_call.method = "manage_create_segment"
     /\ (seg_call.elapsed_start % Day) + seg_call.duration > Day
     /\ seg_call.duration <= Day)
    => LET midnight == ((seg_call.elapsed_start \div Day) + 1) * Day
           before == seg_call.steps
           first == steps[Len(steps)]
           second == seg_ret[1]
       IN  /\ Len(steps) = Len(before) + 1
           /\ SubSeq(steps, 1, Len(before)) = before
           /\ Len(seg_ret) = 1
           /\ first.start_hour = seg_call.start_hour
           /\ first.elapsed_start = seg_call.elapsed_start
           /\ first.elapsed_end = midnight
           /\ second.start_hour = 0
           /\ second.elapsed_start = midnight
           /\ second.elapsed_end = seg_call.elapsed_start + seg_call.duration
           /\ first.duration > 0 /\ second.duration > 0
           /\ first.duration + second.duration = seg_call.duration
           /\ first.miles_moved + second.miles_moved = seg_call.miles_moved
           /\ first.miles_moved * seg_call.duration = seg_call.miles_moved * first.duration
           /\ first.status = seg_call.status /\ second.status = seg_call.status
           /\ first.label = seg_call.label /\ second.label = seg_call.label

\* the call of tests.py: 4 hours and 300 miles from elapsed 22, hour 22, split into
\* 2 hours / 150 miles appended and 2 hours / 150 miles returned
C12_Witness ==
    /\ pc = "returned"
    /\ seg_call.method = "manage_create_segment"
    /\ cfg.AVG_SPEED_MPH = 1
    /\ seg_call.duration = 4 /\ seg_call.elapsed_start = 22 /\ seg_call.start_hour = 22
    /\ seg_call.miles_moved = 300
    /\ Len(steps) = Len(seg_call.steps) + 1
    /\ steps[Len(steps)].duration = 2 /\ steps[Len(steps)].miles_moved = 150
    /\ seg_ret[1].duration = 2 /\ seg_ret[1].miles_moved = 150
    /\ seg_ret[1].start_hour = 0

---------------------------------------------------------------------------
\* C13.  manage_create_segment called with (elapsed_start mod 24) + duration <= 24,
\* the boundary duration = 24 - (elapsed_start mod 24) included: nothing is
\* appended to the caller's list, and the single returned segment carries the
\* full duration, the full miles_moved, the given start_hour and elapsed_start.
C13_NoSplitLeavesList ==
    (/\ pc = "returned"
     /\ seg_call.method = "manage_create_segment"
     /\ (seg_call.elapsed_start % Day) + seg_call.duration <= Day)
    => /\ steps = seg_call.steps
       /\ Len(seg_ret) = 1
       /\ seg_ret[1].duration = seg_call.duration
       /\ seg_ret[1].miles_moved = seg_call.miles_moved
       /\ seg_ret[1].start_hour = seg_call.start_hour
       /\ seg_ret[1].elapsed_start = seg_call.elapsed_start
       /\ seg_ret[1].status = seg_call.status
       /\ seg_ret[1].label = seg_call.label

\* a returned call whose segment ends exactly at midnight, made with a list that
\* already holds a segment
C13_Witness ==
    /\ pc = "returned"
    /\ seg_call.method = "manage_create_segment"
    /\ (seg_call.elapsed_start % Day) + seg_call.duration = Day
    /\ seg_call.miles_moved > 0
    /\ Len(seg_call.steps) = 1
    /\ Len(steps) = 1
    /\ seg_ret[1].elapsed_end % Day = 0

---------------------------------------------------------------------------
\* a cap of the settings is not positive
InvalidConfiguration ==
    \/ cfg.AVG_SPEED_MPH <= 0
    \/ cfg.MAX_DRIVING_PER_DAY <= 0
    \/ cfg.MAX_DRIVE_WINDOW <= 0
    \/ cfg.MAX_CYCLE_HOURS <= 0

\* C14.  With an invalid configuration (a non-positive driving, window or cycle
\* cap) the generation is refused before any segment is emitted: no segment is
\* ever in the list, no schedule is returned, and the loop is never entered.
C14_InvalidConfigurationRejected ==
    InvalidConfiguration
    => /\ steps = <<>>
       /\ pc \notin {"done", "drive", "pickup", "stops"}

---------------------------------------------------------------------------
\* C15.  For a trip that starts with cycle_used_hrs <= MAX_CYCLE_HOURS -
\* PRE_TRIP_INSPECTION_TIME, cycle_remaining is never negative: the DRIVING and
\* ON_DUTY hours since the last restart never exceed MAX_CYCLE_HOURS.
C15_CycleNeverNegative ==
    (call = 1 /\ cycle_used_hrs <= cfg.MAX_CYCLE_HOURS - cfg.PRE_TRIP_INSPECTION_TIME)
    => cycle_remaining >= 0

---------------------------------------------------------------------------
\* C16.  _create_segment: end_hour is (start_hour + duration) mod 24, elapsed_end
\* is elapsed_start + duration, day_number is floor(elapsed_start / 24) + 1, and
\* status, label, duration, start_hour, elapsed_start and miles_moved (0 when no
\* mileage is given) are carried unchanged; the call touches no list.
C16_SegmentFields ==
    (pc = "returned" /\ seg_call.method = "_create_segment")
    => LET seg == seg_ret[1]
       IN  /\ Len(seg_ret) = 1
           /\ seg.end_hour \in 0 .. (Day - 1)
           /\ \E k \in 0 .. 2 : seg_call.start_hour + seg_call.duration = seg.end_hour + k * Day
           /\ seg.elapsed_end - seg_call.elapsed_start = seg_call.duration
           /\ (seg.day_number - 1) * Day <= seg_call.elapsed_start
           /\ seg_call.elapsed_start < seg.day_number * Day
           /\ seg.status = seg_call.status
           /\ seg.label = seg_call.label
           /\ seg.duration = seg_call.duration
           /\ seg.start_hour = seg_call.start_hour
           /\ seg.elapsed_start = seg_call.elapsed_start
           /\ seg.miles_moved = seg_call.miles_moved
           /\ steps = seg_call.steps

\* a segment built on the second day whose end hour wraps past midnight, no mileage
C16_Witness ==
    /\ pc = "returned"
    /\ seg_call.method = "_create_segment"
    /\ seg_call.miles_moved = 0
    /\ seg_call.elapsed_start >= Day
    /\ seg_ret[1].day_number = 2
    /\ seg_ret[1].end_hour < seg_call.start_hour
    /\ seg_ret[1].miles_moved = 0

---------------------------------------------------------------------------
IsDropoff(seg) == seg.status = "ON_DUTY" /\ seg.label = "Drop-off Unloading"

IsFiller(seg) == seg.status = "OFF_DUTY" /\ seg.label = "OFF_DUTY"

\* C17.  Every returned list ends with the Drop-off Unloading activity followed
\* by exactly one final OFF_DUTY filler: the drop-off is the only one of the
\* list, no DRIVING segment follows it, the last segment's elapsed_end is a
\* multiple of 24, and the filler lasts 24 - (hour mod 24), at most 24 hours,
\* within one calendar day.
C17_EndsWithDropoffAndFiller ==
    pc = "done"
    => LET n == Len(steps)
           filler == steps[n]
           dropoffs == { i \in 1 .. n : IsDropoff(steps[i]) }
       IN  /\ n >= 2
           /\ IsFiller(filler)
           /\ IsDropoff(steps[n - 1])
           /\ \/ dropoffs = {n - 1}
              \/ dropoffs = {n - 2, n - 1} /\ IsSplitAt(steps, n - 2)
           /\ \A i \in dropoffs : \A j \in (i + 1) .. n : ~IsDriving(steps[j])
           /\ filler.elapsed_end % Day = 0
           /\ filler.duration = Day - (steps[n - 1].end_hour % Day)
           /\ filler.duration > 0 /\ filler.duration <= Day
           /\ filler.elapsed_start = steps[n - 1].elapsed_end
           /\ filler.elapsed_start \div Day = (filler.elapsed_end - 1) \div Day

\* a returned trip with a drop-off leg whose drop-off is split at midnight and
\* followed by the final filler
C17_Witness ==
    /\ pc = "done"
    /\ remaining_dist = 0 /\ arg_dropoff_miles > 0
    /\ Len(steps) >= 3
    /\ IsSplitAt(steps, Len(steps) - 2)
    /\ IsDropoff(steps[Len(steps) - 1])
    /\ IsFiller(Last(steps))

---------------------------------------------------------------------------
IsPickup(seg) == seg.status = "ON_DUTY" /\ seg.label = "Pickup Loading"

\* the positions of the Pickup Loading segments of the list
Pickups == { i \in 1 .. Len(steps) : IsPickup(steps[i]) }

\* C18.  A trip with a positive total distance gets exactly one Pickup Loading
\* activity (two segments when it is split at midnight), emitted in the iteration
\* in which the distance to the pickup reaches 0: the DRIVING miles before it are
\* exactly the pickup leg, so no mile of the drop-off leg is driven before it.
C18_OnePickupAtPickupDistance ==
    (pc # "start" /\ arg_pickup_miles + arg_dropoff_miles > 0)
    => /\ \A i \in Pickups : DrivingMiles(steps, i - 1) = arg_pickup_miles
       /\ pickup_done <=> Pickups # {}
       /\ ~pickup_done =>
             /\ DrivingMiles(steps, Len(steps)) = arg_pickup_miles - dist_to_pickup_miles
             /\ dist_to_pickup_miles >= 0
       /\ (pc \in {"stops", "done"} /\ dist_to_pickup_miles <= 0) => pickup_done
       /\ (pc \in {"while", "drive"} /\ ~pickup_done /\ dist_to_pickup_miles <= 0)
             => (arg_pickup_miles = 0 /\ \A i \in 1 .. Len(steps) : ~IsDriving(steps[i]))
       /\ pc = "done"
             => \E f \in Pickups :
                   \/ Pickups = {f}
                   \/ Pickups = {f, f + 1} /\ IsSplitAt(steps, f)

\* a returned trip with both legs positive whose pickup is split at midnight
C18_Witness ==
    /\ pc = "done"
    /\ arg_pickup_miles > 0 /\ arg_dropoff_miles > 0
    /\ Cardinality(Pickups) = 2
    /\ \E f \in Pickups : IsSplitAt(steps, f) /\ DrivingMiles(steps, f - 1) = arg_pickup_miles

---------------------------------------------------------------------------
\* elapsed time at which the duty window open at the end of s[1..n] began: the end
\* of the last SLEEPER or cycle-restart segment, or the start-of-duty hour
RECURSIVE WindowStart(_, _)
WindowStart(s, n) ==
    IF n = 0 THEN H(cfg.START_DUTY_HOUR)
    ELSE IF IsSleeper(s[n]) \/ IsRestart(s[n]) THEN s[n].elapsed_end
    ELSE WindowStart(s, n - 1)

\* C19.  Every DRIVING segment ends no later than MAX_DRIVE_WINDOW hours of
\* elapsed time after the end of the most recent SLEEPER or cycle-restart segment
\* (after the start-of-duty hour when there is none), and no DRIVING segment is
\* emitted once the window counter has reached MAX_DRIVE_WINDOW, although the
\* pickup, the fueling stop and the break may push the counter past the cap.
C19_DrivingInsideWindow ==
    /\ [](\A i \in 1 .. Len(steps) :
            IsDriving(steps[i])
            => steps[i].elapsed_end - WindowStart(steps, i - 1) <= H(cfg.MAX_DRIVE_WINDOW))
    /\ [][(pc = "drive" /\ current_drive_window >= H(cfg.MAX_DRIVE_WINDOW))
            => steps' = steps]_vars

\* the drive step is reached with the window counter pushed past the cap by a
\* stop, after driving in that window
C19_Witness ==
    /\ pc = "drive"
    /\ current_drive_window > H(cfg.MAX_DRIVE_WINDOW)
    /\ current_drive_accumulated > 0
    /\ \E i \in 1 .. Len(steps) :
          /\ IsDriving(steps[i])
          /\ steps[i].elapsed_end - WindowStart(steps, i - 1) = H(cfg.MAX_DRIVE_WINDOW)

---------------------------------------------------------------------------
\* C20.  The cycle-limit check comes first in an iteration: when cycle_remaining
\* <= 0 at the top of an iteration, an OFF_DUTY cycle-restart of REST_AFTER_CYCLE
\* hours is emitted before any drive quantum, after which cycle_remaining is
\* MAX_CYCLE_HOURS, the window, daily and since-break counters are 0, and
\* miles_since_fuel, the remaining distance and the pickup flag are unchanged;
\* no DRIVING segment is ever emitted from a state with cycle_remaining <= 0.
C20_CycleCheckFirst ==
    /\ [][(pc = "while" /\ remaining_dist > 0 /\ cycle_remaining <= 0)
            => /\ Len(NewSegments) >= 1
               /\ \A i \in 1 .. Len(NewSegments) : IsRestart(NewSegments[i])
               /\ TotalDuration(NewSegments) = H(cfg.REST_AFTER_CYCLE)
               /\ cycle_remaining' = H(cfg.MAX_CYCLE_HOURS)
               /\ current_drive_window' = 0
               /\ current_drive_accumulated' = 0
               /\ drive_accumulated_since_last_break' = 0
               /\ miles_since_fuel' = miles_since_fuel
               /\ remaining_dist' = remaining_dist
               /\ dist_to_pickup_miles' = dist_to_pickup_miles
               /\ pickup_done' = pickup_done
               /\ pc' = "drive"]_vars
    /\ [][(\E i \in 1 .. Len(NewSegments) : IsDriving(NewSegments[i]))
            => cycle_remaining > 0]_vars
    /\ [](pc = "drive" => cycle_remaining > 0)

\* the drive step reached right after a restart taken in mid-trip: the cycle is
\* full again, the pickup is done and the miles since the last fueling are kept
C20_Witness ==
    /\ pc = "drive"
    /\ IsRestart(Last(steps))
    /\ cycle_remaining = H(cfg.MAX_CYCLE_HOURS)
    /\ current_drive_window = 0
    /\ pickup_done
    /\ miles_since_fuel > 0
    /\ DrivingMiles(steps, Len(steps)) > 0

---------------------------------------------------------------------------
IsBreak(seg) == seg.status = "OFF_DUTY" /\ seg.label = "Break"

IsFueling(seg) == seg.status = "ON_DUTY" /\ seg.label = "Fueling"

\* C21.  Emitting a break resets only drive_accumulated_since_last_break and
\* advances the window counter and the clock by BREAK_DURATION; cycle_remaining,
\* the daily-driving counter, miles_since_fuel and the remaining distance are
\* unchanged.  Emitting a sleeper leaves cycle_remaining and miles_since_fuel
\* unchanged and resets the window, daily-driving and since-break counters.
C21_BreakAndSleeperFrame ==
    /\ [][(\E i \in 1 .. Len(NewSegments) : IsBreak(NewSegments[i]))
            => /\ TotalDuration(NewSegments) = H(cfg.BREAK_DURATION)
               /\ drive_accumulated_since_last_break' = 0
               /\ current_drive_window' = current_drive_window + H(cfg.BREAK_DURATION)
               /\ total_elapsed' = total_elapsed + H(cfg.BREAK_DURATION)
               /\ current_hour' = (current_hour + H(cfg.BREAK_DURATION)) % Day
               /\ cycle_remaining' = cycle_remaining
               /\ current_drive_accumulated' = current_drive_accumulated
               /\ miles_since_fuel' = miles_since_fuel
               /\ remaining_dist' = remaining_dist
               /\ dist_to_pickup_miles' = dist_to_pickup_miles
               /\ pickup_done' = pickup_done]_vars
    /\ [][(\E i \in 1 .. Len(NewSegments) : IsSleeper(NewSegments[i]))
            => /\ TotalDuration(NewSegments) = H(cfg.SLEEPER_BREAK_HOURS)
               /\ cycle_remaining' = cycle_remaining
               /\ miles_since_fuel' = miles_since_fuel
               /\ remaining_dist' = remaining_dist
               /\ current_drive_window' = 0
               /\ current_drive_accumulated' = 0
               /\ drive_accumulated_since_last_break' = 0]_vars

\* right after a break taken in mid-trip: the daily-driving counter and the miles
\* since the last fueling are still positive, the since-break counter is 0
C21_Witness ==
    /\ pc = "while"
    /\ IsBreak(Last(steps))
    /\ drive_accumulated_since_last_break = 0
    /\ current_drive_accumulated > 0
    /\ miles_since_fuel > 0
    /\ remaining_dist > 0

---------------------------------------------------------------------------
\* C22, as stated.  A fueling stop advances the window counter by
\* FUELING_DURATION and does not consume the cycle: cycle_remaining is the same
\* right after the fueling segment as right before it.
C22_FuelingKeepsCycle ==
    [][(\E i \in 1 .. Len(NewSegments) : IsFueling(NewSegments[i]))
        => /\ current_drive_window' = current_drive_window + H(cfg.FUELING_DURATION)
           /\ cycle_remaining' = cycle_remaining]_vars

\* C22, amended.  A fueling stop advances the window counter by FUELING_DURATION
\* and consumes the cycle by the same amount: cycle_remaining right after the
\* fueling segment is its value right before it minus FUELING_DURATION.
C22_FuelingChargesCycle ==
    [][(\E i \in 1 .. Len(NewSegments) : IsFueling(NewSegments[i]))
        => /\ TotalDuration(NewSegments) = H(cfg.FUELING_DURATION)
           /\ current_drive_window' = current_drive_window + H(cfg.FUELING_DURATION)
           /\ cycle_remaining' = cycle_remaining - H(cfg.FUELING_DURATION)]_vars

\* right after a fueling stop taken with distance left to drive
C22_Witness ==
    /\ pc = "while"
    /\ IsFueling(Last(steps))
    /\ miles_since_fuel = 0
    /\ current_drive_window > H(cfg.FUELING_DURATION)
    /\ remaining_dist > 0

---------------------------------------------------------------------------
\* C23.  Under a positive configuration every emitted segment has a strictly
\* positive duration: the drive quanta, both halves of a midnight split, the
\* leading and the final filler, and every other segment.
C23_PositiveDurations ==
    \A i \in 1 .. Len(steps) : steps[i].duration > 0

\* a returned list that begins with the leading filler and holds a drive quantum
\* of one time unit and a midnight split whose first half is one time unit long
C23_Witness ==
    /\ pc = "done"
    /\ cfg.START_DUTY_HOUR > 0
    /\ IsFiller(steps[1])
    /\ \E i \in 1 .. Len(steps) : IsDriving(steps[i]) /\ steps[i].duration = 1
    /\ \E i \in 1 .. Len(steps) - 1 : IsSplitAt(steps, i) /\ steps[i].duration = 1

---------------------------------------------------------------------------
\* C24.  The hour-of-day clock and the elapsed clock never drift apart: once the
\* call has set up its clocks, current_hour is total_elapsed mod 24 after every
\* step, and every emitted segment has start_hour = elapsed_start mod 24 and
\* end_hour = elapsed_end mod 24, both in [0, 24).
C24_ClocksAgree ==
    pc # "start"
    => /\ current_hour = total_elapsed % Day
       /\ \A i \in 1 .. Len(steps) :
             /\ steps[i].start_hour = steps[i].elapsed_start % Day
             /\ steps[i].end_hour = steps[i].elapsed_end % Day
             /\ steps[i].start_hour \in 0 .. (Day - 1)
             /\ steps[i].end_hour \in 0 .. (Day - 1)

\* in the middle of the loop on a later day, past a midnight split, at an hour
\* that differs from the elapsed time
C24_Witness ==
    /\ pc = "drive"
    /\ total_elapsed > 2 * Day
    /\ current_hour > 0
    /\ current_hour = total_elapsed - 2 * Day
    /\ \E i \in 1 .. Len(steps) - 1 : IsSplitAt(steps, i)

---------------------------------------------------------------------------
\* C25.  A reached fuel threshold is served before more driving: no DRIVING
\* segment is started from a state with miles_since_fuel >= MILES_BEFORE_FUEL.
\* When a drive quantum brings miles_since_fuel to the threshold or beyond, the
\* fueling segment is emitted in that same iteration and miles_since_fuel is 0
\* before the next drive quantum is computed.
C25_FuelBeforeMoreDriving ==
    /\ []((pc \in {"while", "drive"}) => miles_since_fuel < cfg.MILES_BEFORE_FUEL)
    /\ [][(pc = "stops" /\ miles_since_fuel >= cfg.MILES_BEFORE_FUEL)
            => /\ Len(NewSegments) >= 1
               /\ \A i \in 1 .. Len(NewSegments) : IsFueling(NewSegments[i])
               /\ miles_since_fuel' = 0
               /\ pc' = "while"]_vars
    /\ [][(\E i \in 1 .. Len(NewSegments) : IsDriving(NewSegments[i]))
            => miles_since_fuel < cfg.MILES_BEFORE_FUEL]_vars

\* the stop check reached with the threshold overshot by the last drive quantum
\* and a break due as well
C25_Witness ==
    /\ pc = "stops"
    /\ miles_since_fuel > cfg.MILES_BEFORE_FUEL
    /\ IsDriving(Last(steps))
    /\ BreakDue
    /\ remaining_dist > 0

===========================================================================
